---- MODULE Spec2Model ----
(***************************************************************************)
(* State-machine model of the hybrid dispatch bot (src/bot/app.py): the    *)
(* conversation intake of handle_message, the in-memory job registry       *)
(* job_queue, the worker endpoints claim/complete/fail/progress, and the   *)
(* background escalation thread check_and_trigger_github.                  *)
(*                                                                         *)
(* Flask serves requests on concurrent threads and the escalation task is  *)
(* a threading.Thread; the code takes no lock.  Every handler is therefore *)
(* a small program counter machine whose steps are the statements that     *)
(* read or write the shared dictionaries, and steps of different threads   *)
(* interleave freely.                                                      *)
(*                                                                         *)
(* Text encoding: TLA+ strings are ASCII, so the three emoji of the        *)
(* keyboard are written "<E1>" (desktop computer), "<E2>" (cloud) and      *)
(* "<E3>" (counterclockwise arrows).                                       *)
(***************************************************************************)
EXTENDS Integers, Sequences, FiniteSets, TLC

\* ------------------------------------------------------------------ bounds
\* Number of job objects ever created (create_job calls) in one run.
MaxJobs == 1
\* The clock (time.time() in milliseconds) runs over 0..MaxTime.
MaxTime == 1

\* ------------------------------------------------------- text primitives
Char(s, i) == SubSeq(s, i, i)

Rest(s, i) == SubSeq(s, i, Len(s))

StartsWith(s, p) == Len(s) >= Len(p) /\ SubSeq(s, 1, Len(p)) = p

\* Python: sub in s  (s is evaluated once, then searched)
Contains(s, sub) ==
    \E v \in {s} :
        \E i \in 1..(Len(v) - Len(sub) + 1) : SubSeq(v, i, i + Len(sub) - 1) = sub

UpperChars == <<"A","B","C","D","E","F","G","H","I","J","K","L","M",
                "N","O","P","Q","R","S","T","U","V","W","X","Y","Z">>
LowerChars == <<"a","b","c","d","e","f","g","h","i","j","k","l","m",
                "n","o","p","q","r","s","t","u","v","w","x","y","z">>
DigitChars == <<"0","1","2","3","4","5","6","7","8","9">>

LowerChar(c) ==
    IF \E k \in 1..26 : UpperChars[k] = c
    THEN LowerChars[CHOOSE k \in 1..26 : UpperChars[k] = c]
    ELSE c

\* s[i-1:].lower(), character by character
RECURSIVE LowerFrom(_, _)
LowerFrom(s, i) ==
    IF i > Len(s) THEN "" ELSE LowerChar(Char(s, i)) \o LowerFrom(s, i + 1)

\* Python: s.lower()
Lower(s) == LowerFrom(s, 1)

IsDigitChar(c) == \E k \in 1..10 : DigitChars[k] = c

DigitVal(c) == (CHOOSE k \in 1..10 : DigitChars[k] = c) - 1

\* Python: s.isdigit()  (false for the empty string)
IsDigit(s) == Len(s) > 0 /\ \A i \in 1..Len(s) : IsDigitChar(Char(s, i))

\* Python: int(s) for a string of decimal digits
RECURSIVE IntOf(_)
IntOf(s) ==
    IF Len(s) = 0 THEN 0
    ELSE 10 * IntOf(SubSeq(s, 1, Len(s) - 1)) + DigitVal(Char(s, Len(s)))

\* regex class [\w-]
IsWordChar(c) ==
    \/ IsDigitChar(c)
    \/ \E k \in 1..26 : UpperChars[k] = c \/ LowerChars[k] = c
    \/ c = "_"
    \/ c = "-"

\* ------------------------------------------------------ YouTube patterns
\* The fixed part of each pattern after the two optional groups.
YoutubeCores == <<"youtube.com/watch?v=", "youtu.be/", "youtube.com/shorts/">>

\* Length of the optional group (https?://)? when it is taken at position i.
HttpLen(s, i) ==
    IF StartsWith(Rest(s, i), "https://") THEN 8
    ELSE IF StartsWith(Rest(s, i), "http://") THEN 7
    ELSE 0

\* Length of the optional group (www\.)? when it is taken at position i.
WwwLen(s, i) == IF StartsWith(Rest(s, i), "www.") THEN 4 ELSE 0

\* Length of the longest run of [\w-] starting at position i.
RECURSIVE WordRun(_, _)
WordRun(s, i) ==
    IF i <= Len(s) /\ IsWordChar(Char(s, i)) THEN 1 + WordRun(s, i + 1) ELSE 0

\* The core followed by [\w-]+ starts at position j.
CoreAt(s, j, core) ==
    /\ StartsWith(Rest(s, j), core)
    /\ WordRun(s, j + Len(core)) >= 1

\* Length of the match of pattern `core` anchored at position i, 0 for none.
\* The regex engine tries each optional group taken first, then skipped.
MatchLen(s, i, core) ==
    LET h  == HttpLen(s, i)
        w1 == WwwLen(s, i + h)
        w0 == WwwLen(s, i)
        Full(j) == (j - i) + Len(core) + WordRun(s, j + Len(core))
    IN  IF h > 0 /\ w1 > 0 /\ CoreAt(s, i + h + w1, core) THEN Full(i + h + w1)
        ELSE IF h > 0 /\ CoreAt(s, i + h, core) THEN Full(i + h)
        ELSE IF w0 > 0 /\ CoreAt(s, i + w0, core) THEN Full(i + w0)
        ELSE IF CoreAt(s, i, core) THEN Full(i)
        ELSE 0

\* re.search(pattern, text) finds a match
Searches(s, core) == \E i \in 1..Len(s) : MatchLen(s, i, core) > 0

\* re.search(pattern, text).group(): the leftmost match
SearchGroup(s, core) ==
    CHOOSE r \in {SubSeq(s, i, i + MatchLen(s, i, core) - 1) :
                     i \in {k \in 1..Len(s) :
                              /\ MatchLen(s, k, core) > 0
                              /\ \A m \in 1..(k - 1) : MatchLen(s, m, core) = 0}} :
        TRUE

is_youtube_url(text) == \E p \in 1..3 : Searches(text, YoutubeCores[p])

\* Defined when is_youtube_url(text); the first pattern that matches wins.
extract_youtube_url(text) ==
    CHOOSE r \in {IF StartsWith(url, "http") THEN url ELSE "https://" \o url :
                     url \in {SearchGroup(text, YoutubeCores[p]) :
                                p \in {k \in 1..3 :
                                         /\ Searches(text, YoutubeCores[k])
                                         /\ \A m \in 1..(k - 1) :
                                               ~Searches(text, YoutubeCores[m])}}} :
        TRUE

\* ------------------------------------------------------------ inputs
\* Chat identities that send messages.
Chats == {7}

\* The three keyboard buttons of the "Where to process?" question.
LocalButton == "<E1> Local PC (faster)"
CloudButton == "<E2> Cloud (when PC off)"
AutoButton == "<E3> Auto (local first, then cloud)"

\* Messages of a chat that answers every question with an accepted value.
DispatchTexts == {"https://youtube.com/watch?v=abc", "2", "45 seconds",
                  LocalButton, CloudButton, "auto"}

\* Messages of a chat that answers every question and may start over.
RestartTexts == DispatchTexts \cup {"/start"}

\* Messages of a chat that also sends commands and rejected values.
IntakeTexts == {"/start", "/help", "/status",
                "https://youtube.com/watch?v=abc", "youtu.be/xyz now", "hello",
                "2", "5", "9",
                "45 seconds", "60", "90",
                LocalButton, CloudButton, AutoButton, "auto", "maybe"}

\* Progress messages the worker posts ("" is an absent or empty message).
ProgressTexts == {"", "Downloading video..."}

\* Job ids a request can name: "job_<ms>" is written as the number <ms>.
\* The last one is never generated: it is an unknown job_id in every state.
JobIds == 0..(MaxTime + 1)

\* Request threads.  Each specification below says which requests a thread
\* serves: thread 1 serves the webhook, threads 2 and 3 the worker endpoints.
Threads == {1, 2, 3}

\* ------------------------------------------------------------- state
VARIABLES
    now,            \* time.time() in milliseconds
    configured,     \* GITHUB_TOKEN and GITHUB_REPO are both set
    user_sessions,  \* chat_id -> session dict ("none": no entry)
    jobs,           \* the job dict objects ever created, by identity
    job_queue,      \* job_id -> identity of the dict stored under it (0: no entry)
    th,             \* the request threads: position and locals
    tasks,          \* the escalation threads: position and locals
    triggers,       \* history: the calls of trigger_github_action
    h_claims,       \* history: per job object, claim requests answered 200
    h_holder,       \* history: job objects claimed with 200 and not yet reported
    worker          \* the local worker process: position, locals, history

vars == <<now, configured, user_sessions, jobs, job_queue, th, tasks,
          triggers, h_claims, h_holder, worker>>

\* user_sessions[chat_id] = {'state': 'idle'}: the draft keys are missing
\* ("" and 0 stand for a missing key).
NewSession == [state |-> "idle", youtube_url |-> "", num_clips |-> 0,
               clip_duration |-> 0]

NoSession == [state |-> "none", youtube_url |-> "", num_clips |-> 0,
              clip_duration |-> 0]

\* The local worker before its first poll: jobs is the list of the for loop
\* of main(), job_id the job of the current iteration; claimed, started and
\* reports are the history of its claims, process_job calls and reports.
NewWorker == [pc |-> "poll", jobs |-> {}, job_id |-> -1, claimed |-> {},
              started |-> <<>>, reports |-> <<>>]

IdleThread == [pc |-> "idle", kind |-> "-", chat |-> 0, text |-> "",
               job_id |-> -1, fb |-> FALSE, job |-> 0, state |-> "-",
               sess0 |-> NoSession, gt0 |-> FALSE,
               choice |-> "-", tag |-> "-", ok |-> FALSE, sent |-> <<>>,
               resp |-> 0, body |-> {}, count |-> 0]

Init ==
    /\ now = 0
    /\ configured \in BOOLEAN
    /\ user_sessions = [c \in Chats |-> NoSession]
    /\ jobs = <<>>
    /\ job_queue = [j \in JobIds |-> 0]
    /\ th = [t \in Threads |-> IdleThread]
    /\ tasks = <<>>
    /\ triggers = <<>>
    /\ h_claims = <<>>
    /\ h_holder = {}
    /\ worker = NewWorker

\* ------------------------------------------------------------- helpers
\* str(chat_id)
Str(n) == ToString(n)

\* generate_job_id(): the millisecond clock
generate_job_id == now

\* The dict create_job stores.
NewJob(job_id, chat_id, youtube_url, num_clips, clip_duration) ==
    [job_id |-> job_id, chat_id |-> Str(chat_id), youtube_url |-> youtube_url,
     num_clips |-> num_clips, clip_duration |-> clip_duration,
     status |-> "pending", created_at |-> now, processor |-> "None",
     github_triggered |-> FALSE, processor_choice |-> "absent",
     claimed_at |-> -1, completed_at |-> -1]

\* duration_map.get(text.lower()): 0 for None
duration_map(text) ==
    LET k == Lower(text)
    IN  IF k \in {"30", "30 seconds", "30s"} THEN 30
        ELSE IF k \in {"45", "45 seconds", "45s"} THEN 45
        ELSE IF k \in {"60", "60 seconds", "60s"} THEN 60
        ELSE 0

\* Mutant of valid_num_clips: the upper limit is 9.
valid_num_clips_UpTo9(text) ==
    IsDigit(text) /\ 1 <= IntOf(text) /\ IntOf(text) <= 9

\* text.isdigit() and 1 <= int(text) <= 5
valid_num_clips(text) == IsDigit(text) /\ 1 <= IntOf(text) /\ IntOf(text) <= 5

\* The if/elif chain of the waiting_processor stage; "-" for None.
processor_choice_of(text) ==
    IF Contains(Lower(text), "local") \/ Contains(text, "<E1>") THEN "local"
    ELSE IF Contains(Lower(text), "cloud") \/ Contains(text, "<E2>") THEN "cloud"
    ELSE IF Contains(Lower(text), "auto") \/ Contains(text, "<E3>") THEN "auto"
    ELSE "-"

\* Outcomes of one requests.post: a response with a status code, or an
\* exception (connection error, timeout).
PostOutcomes == {"204", "500", "raise"}

\* The payload trigger_github_action builds from the job dict.
Payload(obj) ==
    [obj |-> obj, job_id |-> jobs[obj].job_id, chat_id |-> jobs[obj].chat_id,
     youtube_url |-> jobs[obj].youtube_url, num_clips |-> jobs[obj].num_clips,
     clip_duration |-> jobs[obj].clip_duration]

\* Mutant of trigger_github_action: every response counts as a success.
trigger_github_action_AnyResponse(o) ==
    IF ~configured
    THEN [posted |-> FALSE, raised |-> FALSE, code |-> "-", success |-> FALSE,
          message |-> "GitHub not configured"]
    ELSE IF o = "raise"
    THEN [posted |-> TRUE, raised |-> TRUE, code |-> "-", success |-> FALSE,
          message |-> ""]
    ELSE [posted |-> TRUE, raised |-> FALSE, code |-> o, success |-> TRUE,
          message |-> "Workflow triggered"]

\* trigger_github_action(job) when the POST ends with outcome o:
\* whether a POST was made, the status code of the response (if one came),
\* and the (success, message) pair returned.
trigger_github_action(o) ==
    IF ~configured
    THEN [posted |-> FALSE, raised |-> FALSE, code |-> "-", success |-> FALSE,
          message |-> "GitHub not configured"]
    ELSE IF o = "raise"
    THEN [posted |-> TRUE, raised |-> TRUE, code |-> "-", success |-> FALSE,
          message |-> ""]
    ELSE IF o = "204"
    THEN [posted |-> TRUE, raised |-> FALSE, code |-> o, success |-> TRUE,
          message |-> "Workflow triggered"]
    ELSE [posted |-> TRUE, raised |-> FALSE, code |-> o, success |-> FALSE,
          message |-> "Error: " \o o]

\* The history entry of one call: the payload, the caller, and what the
\* call did and returned.
TriggerCall(obj, by, r) == Payload(obj) @@ [by |-> by] @@ r

\* Mutant of SetJob: an assignment to another field of a job clears its flag.
SetJob_ClearsFlag(obj, field, value) ==
    IF field = "github_triggered"
    THEN [jobs EXCEPT ![obj][field] = value]
    ELSE [jobs EXCEPT ![obj][field] = value, ![obj].github_triggered = FALSE]

\* job[field] = value
SetJob(obj, field, value) == [jobs EXCEPT ![obj][field] = value]

\* A send_message call at position p of thread t: the message goes out and
\* the thread moves on to q, or requests.post raises and the handler ends
\* with the 500 answer (the webhook's except clause, Flask's error page).
SendMessage(t, p, m, q, r) ==
    /\ th[t].pc = p
    /\ \/ th' = [th EXCEPT ![t].pc = q, ![t].sent = Append(@, m), ![t].resp = r]
       \/ th' = [th EXCEPT ![t].pc = "ret", ![t].resp = 500]

\* ------------------------------------------------ time and request arrival
Tick ==
    /\ now < MaxTime
    /\ now' = now + 1
    /\ UNCHANGED <<configured, user_sessions, jobs, job_queue, th, tasks,
                   triggers, h_claims, h_holder,
                   worker>>

\* Threads inside handle_message: each may still call create_job.
Creating == {u \in Threads : th[u].kind = "message"}

\* webhook(): one chat message, drawn from T, arrives (while the run, which
\* creates at most n jobs, may still create one)
ReceiveMessage(t, T, n) ==
    /\ th[t].pc = "idle"
    /\ Len(jobs) + Cardinality(Creating) < n
    /\ \E c \in Chats, text \in T :
          th' = [th EXCEPT ![t] = [IdleThread EXCEPT !.pc = "h_start",
                     !.kind = "message", !.chat = c, !.text = text]]
    /\ UNCHANGED <<now, configured, user_sessions, jobs, job_queue, tasks,
                   triggers, h_claims, h_holder,
                   worker>>

\* GET /api/jobs/pending arrives
ReceivePending(t) ==
    /\ th[t].pc = "idle"
    /\ th' = [th EXCEPT ![t] = [IdleThread EXCEPT !.pc = "l_start",
                                    !.kind = "pending"]]
    /\ UNCHANGED <<now, configured, user_sessions, jobs, job_queue, tasks,
                   triggers, h_claims, h_holder,
                   worker>>

\* POST /api/jobs/<job_id>/claim arrives
ReceiveClaim(t) ==
    /\ th[t].pc = "idle"
    /\ \E j \in JobIds :
          th' = [th EXCEPT ![t] = [IdleThread EXCEPT !.pc = "c_start",
                     !.kind = "claim", !.job_id = j]]
    /\ UNCHANGED <<now, configured, user_sessions, jobs, job_queue, tasks,
                   triggers, h_claims, h_holder,
                   worker>>

\* POST /api/jobs/<job_id>/progress arrives
ReceiveProgress(t) ==
    /\ th[t].pc = "idle"
    /\ \E j \in JobIds, m \in ProgressTexts :
          th' = [th EXCEPT ![t] = [IdleThread EXCEPT !.pc = "p_start",
                     !.kind = "progress", !.job_id = j, !.text = m]]
    /\ UNCHANGED <<now, configured, user_sessions, jobs, job_queue, tasks,
                   triggers, h_claims, h_holder,
                   worker>>

\* POST /api/jobs/<job_id>/complete arrives: the worker's terminal report
\* for the job, which ends its hold on it.
ReceiveComplete(t) ==
    /\ th[t].pc = "idle"
    /\ \E j \in JobIds :
          /\ th' = [th EXCEPT ![t] = [IdleThread EXCEPT !.pc = "k_start",
                        !.kind = "complete", !.job_id = j]]
          /\ h_holder' = h_holder \ {job_queue[j]}
    /\ UNCHANGED <<now, configured, user_sessions, jobs, job_queue, tasks,
                   triggers, h_claims,
                   worker>>

\* POST /api/jobs/<job_id>/fail arrives, with fallback_to_github = fb
\* (True when the body leaves it out): the worker's other terminal report.
ReceiveFail(t) ==
    /\ th[t].pc = "idle"
    /\ \E j \in JobIds, fb \in BOOLEAN :
          /\ th' = [th EXCEPT ![t] = [IdleThread EXCEPT !.pc = "f_start",
                        !.kind = "fail", !.job_id = j, !.fb = fb]]
          /\ h_holder' = h_holder \ {job_queue[j]}
    /\ UNCHANGED <<now, configured, user_sessions, jobs, job_queue, tasks,
                   triggers, h_claims,
                   worker>>

\* The handler returns its answer; the thread is free again.
Return(t) ==
    /\ th[t].pc = "ret"
    /\ th' = [th EXCEPT ![t] = IdleThread]
    /\ IF th[t].kind = "claim" /\ th[t].resp = 200
       THEN /\ h_claims' = [h_claims EXCEPT ![th[t].job] = @ + 1]
            /\ h_holder' = h_holder \cup {th[t].job}
       ELSE UNCHANGED <<h_claims, h_holder,
                   worker>>
    /\ UNCHANGED <<now, configured, user_sessions, jobs, job_queue, tasks,
                   triggers,
                   worker>>

\* ------------------------------------------------------ handle_message
\* The session dict of the chat, created on the first message.
SessionOf(c) ==
    IF user_sessions[c].state = "none" THEN NewSession ELSE user_sessions[c]

\* /status: the chat has a job that is pending or processing
HasActiveJob(c) ==
    \E j \in JobIds :
        /\ job_queue[j] # 0
        /\ jobs[job_queue[j]].chat_id = Str(c)
        /\ jobs[job_queue[j]].status \in {"pending", "processing"}

\* Mutant of StageAccepts: the duration stage takes any number of seconds.
StageAccepts_AnySeconds(state, text) ==
    CASE state = "idle" -> is_youtube_url(text)
      [] state = "waiting_num_clips" -> valid_num_clips(text)
      [] state = "waiting_duration" -> duration_map(text) # 0 \/ IsDigit(text)
      [] state = "waiting_processor" -> processor_choice_of(text) # "-"
      [] OTHER -> FALSE

\* The stage's own check of the text.
StageAccepts(state, text) ==
    CASE state = "idle" -> is_youtube_url(text)
      [] state = "waiting_num_clips" -> valid_num_clips(text)
      [] state = "waiting_duration" -> duration_map(text) # 0
      [] state = "waiting_processor" -> processor_choice_of(text) # "-"
      [] OTHER -> FALSE

\* The corrective prompt of each stage.
RePrompt(state) ==
    CASE state = "idle" -> "bad_url"
      [] state = "waiting_num_clips" -> "bad_num_clips"
      [] state = "waiting_duration" -> "bad_duration"
      [] OTHER -> "bad_processor"

\* The stage that follows, and the question that opens it.
NextStage(state) ==
    CASE state = "idle" -> "waiting_num_clips"
      [] state = "waiting_num_clips" -> "waiting_duration"
      [] OTHER -> "waiting_processor"

StagePrompt(state) ==
    CASE state = "idle" -> "ask_num_clips"
      [] state = "waiting_num_clips" -> "ask_duration"
      [] OTHER -> "ask_processor"

\* Mutant of CommandStage: /help resets the stage as /start does.
CommandStage_HelpResets(text, state) ==
    IF text \in {"/start", "/help"} THEN "idle" ELSE state

\* The stage a command leaves: /start assigns session['state'] = 'idle',
\* /help and /status assign nothing.
CommandStage(text, state) == IF text = "/start" THEN "idle" ELSE state

\* Session lookup, the three commands, and the read of session['state'].
HandleStart(t) ==
    LET c    == th[t].chat
        text == th[t].text
        sess == SessionOf(c)
    IN
    /\ th[t].pc = "h_start"
    /\ \/ /\ text = "/start"
          /\ user_sessions' = [user_sessions EXCEPT ![c] =
                 [sess EXCEPT !.state = CommandStage(text, sess.state)]]
          /\ th' = [th EXCEPT ![t].pc = "h_reply", ![t].tag = "welcome",
                       ![t].sess0 = sess]
       \/ /\ text = "/help"
          /\ user_sessions' = [user_sessions EXCEPT ![c] =
                 [sess EXCEPT !.state = CommandStage(text, sess.state)]]
          /\ th' = [th EXCEPT ![t].pc = "h_reply", ![t].tag = "help",
                       ![t].sess0 = sess]
       \/ /\ text = "/status"
          /\ user_sessions' = [user_sessions EXCEPT ![c] =
                 [sess EXCEPT !.state = CommandStage(text, sess.state)]]
          /\ th' = [th EXCEPT ![t].pc = "h_reply", ![t].sess0 = sess,
                       ![t].tag = IF HasActiveJob(c) THEN "status_job"
                                  ELSE "status_none"]
       \/ /\ text \notin {"/start", "/help", "/status"}
          /\ user_sessions' = [user_sessions EXCEPT ![c] = sess]
          /\ IF ~StageAccepts(sess.state, text)
             THEN th' = [th EXCEPT ![t].pc = "h_reply", ![t].state = sess.state,
                             ![t].sess0 = sess,
                             ![t].tag = RePrompt(sess.state)]
             ELSE IF sess.state = "waiting_processor"
             THEN th' = [th EXCEPT ![t].pc = "h_reset",
                             ![t].state = sess.state,
                             ![t].sess0 = sess,
                             ![t].choice = processor_choice_of(text)]
             ELSE th' = [th EXCEPT ![t].pc = "h_draft", ![t].state = sess.state,
                             ![t].sess0 = sess]
    /\ UNCHANGED <<now, configured, jobs, job_queue, tasks, triggers,
                   h_claims, h_holder,
                   worker>>

\* session['youtube_url'] = url / session['num_clips'] = int(text) /
\* session['clip_duration'] = duration
HandleDraft(t) ==
    LET c == th[t].chat
        text == th[t].text
    IN
    /\ th[t].pc = "h_draft"
    /\ user_sessions' = [user_sessions EXCEPT ![c] =
          CASE th[t].state = "idle" ->
                   [@ EXCEPT !.youtube_url = extract_youtube_url(text)]
            [] th[t].state = "waiting_num_clips" ->
                   [@ EXCEPT !.num_clips = IntOf(text)]
            [] OTHER ->
                   [@ EXCEPT !.clip_duration = duration_map(text)]]
    /\ th' = [th EXCEPT ![t].pc = "h_stage"]
    /\ UNCHANGED <<now, configured, jobs, job_queue, tasks, triggers,
                   h_claims, h_holder,
                   worker>>

\* session['state'] = <the next stage>
HandleStage(t) ==
    /\ th[t].pc = "h_stage"
    /\ user_sessions' = [user_sessions EXCEPT ![th[t].chat].state =
                             NextStage(th[t].state)]
    /\ th' = [th EXCEPT ![t].pc = "h_reply", ![t].tag = StagePrompt(th[t].state)]
    /\ UNCHANGED <<now, configured, jobs, job_queue, tasks, triggers,
                   h_claims, h_holder,
                   worker>>

\* The last send_message of a branch, then return.
HandleReply(t) ==
    /\ SendMessage(t, "h_reply", th[t].tag, "ret", 200)
    /\ UNCHANGED <<now, configured, user_sessions, jobs, job_queue, tasks,
                   triggers, h_claims, h_holder,
                   worker>>

\* waiting_processor with a recognized choice: session['state'] = 'idle'
HandleReset(t) ==
    /\ th[t].pc = "h_reset"
    /\ user_sessions' = [user_sessions EXCEPT ![th[t].chat].state = "idle"]
    /\ th' = [th EXCEPT ![t].pc = "h_create"]
    /\ UNCHANGED <<now, configured, jobs, job_queue, tasks, triggers,
                   h_claims, h_holder,
                   worker>>

\* create_job(chat_id, session['youtube_url'], session['num_clips'],
\*            session['clip_duration'])
create_job(t) ==
    LET sess   == user_sessions[th[t].chat]
        job_id == generate_job_id
    IN
    /\ th[t].pc = "h_create"
    /\ jobs' = Append(jobs, NewJob(job_id, th[t].chat, sess.youtube_url,
                                   sess.num_clips, sess.clip_duration))
    /\ job_queue' = [job_queue EXCEPT ![job_id] = Len(jobs) + 1]
    /\ h_claims' = Append(h_claims, 0)
    /\ th' = [th EXCEPT ![t].pc = "h_choice", ![t].job_id = job_id]
    /\ UNCHANGED <<now, configured, user_sessions, tasks, triggers, h_holder,
                   worker>>

\* job_queue[job_id]['processor_choice'] = processor_choice
HandleChoice(t) ==
    /\ th[t].pc = "h_choice"
    /\ jobs' = SetJob(job_queue[th[t].job_id], "processor_choice", th[t].choice)
    /\ th' = [th EXCEPT ![t].pc =
                 CASE th[t].choice = "local" -> "h_reply"
                   [] th[t].choice = "cloud" -> "h_cloud_flag"
                   [] OTHER -> "h_auto_send",
              ![t].tag = "local_selected"]
    /\ UNCHANGED <<now, configured, user_sessions, job_queue, tasks, triggers,
                   h_claims, h_holder,
                   worker>>

\* cloud: job_queue[job_id]['github_triggered'] = True
HandleCloudFlag(t) ==
    /\ th[t].pc = "h_cloud_flag"
    /\ jobs' = SetJob(job_queue[th[t].job_id], "github_triggered", TRUE)
    /\ th' = [th EXCEPT ![t].pc = "h_cloud_proc"]
    /\ UNCHANGED <<now, configured, user_sessions, job_queue, tasks, triggers,
                   h_claims, h_holder,
                   worker>>

\* cloud: job_queue[job_id]['processor'] = 'github'
HandleCloudProcessor(t) ==
    /\ th[t].pc = "h_cloud_proc"
    /\ jobs' = SetJob(job_queue[th[t].job_id], "processor", "github")
    /\ th' = [th EXCEPT ![t].pc = "h_cloud_send"]
    /\ UNCHANGED <<now, configured, user_sessions, job_queue, tasks, triggers,
                   h_claims, h_holder,
                   worker>>

\* cloud: the "Cloud Processing Selected!" message
HandleCloudSend(t) ==
    /\ SendMessage(t, "h_cloud_send", "cloud_selected", "h_cloud_trigger", 0)
    /\ UNCHANGED <<now, configured, user_sessions, jobs, job_queue, tasks,
                   triggers, h_claims, h_holder,
                   worker>>

\* cloud: success, message = trigger_github_action(job_queue[job_id])
HandleCloudTrigger(t) ==
    /\ th[t].pc = "h_cloud_trigger"
    /\ \E o \in PostOutcomes :
          LET r == trigger_github_action(o)
          IN  /\ triggers' = Append(triggers,
                     TriggerCall(job_queue[th[t].job_id], "cloud", r))
              /\ th' = IF r.raised
                       THEN [th EXCEPT ![t].pc = "ret", ![t].resp = 500]
                       ELSE [th EXCEPT ![t].pc = "h_cloud_status",
                                       ![t].ok = r.success]
    /\ UNCHANGED <<now, configured, user_sessions, jobs, job_queue, tasks,
                   h_claims, h_holder,
                   worker>>

\* cloud: job_queue[job_id]['status'] = 'processing' or 'failed'
HandleCloudStatus(t) ==
    /\ th[t].pc = "h_cloud_status"
    /\ jobs' = SetJob(job_queue[th[t].job_id], "status",
                      IF th[t].ok THEN "processing" ELSE "failed")
    /\ th' = [th EXCEPT ![t].pc = "h_reply",
                 ![t].tag = IF th[t].ok THEN "cloud_started" ELSE "cloud_failed"]
    /\ UNCHANGED <<now, configured, user_sessions, job_queue, tasks, triggers,
                   h_claims, h_holder,
                   worker>>

\* auto: the "Auto Mode Selected!" message
HandleAutoSend(t) ==
    /\ SendMessage(t, "h_auto_send", "auto_selected", "h_auto_thread", 0)
    /\ UNCHANGED <<now, configured, user_sessions, jobs, job_queue, tasks,
                   triggers, h_claims, h_holder,
                   worker>>

\* auto: threading.Thread(target=check_and_trigger_github, args=(job_id,)).start()
HandleAutoThread(t) ==
    /\ th[t].pc = "h_auto_thread"
    /\ tasks' = Append(tasks, [job_id |-> th[t].job_id, pc |-> "sleep",
                               job |-> 0, ok |-> FALSE, sent |-> <<>>,
                               woke |-> "-"])
    /\ th' = [th EXCEPT ![t].pc = "ret", ![t].resp = 200]
    /\ UNCHANGED <<now, configured, user_sessions, jobs, job_queue, triggers,
                   h_claims, h_holder,
                   worker>>

\* ---------------------------------------------------- worker endpoints
\* Mutant of NotFound: the unknown id is answered like a success.
NotFound_AnsweredOk(t) == th' = [th EXCEPT ![t].pc = "ret", ![t].resp = 200]

\* return jsonify({'ok': False, 'error': 'Job not found'}), 404
NotFound(t) == th' = [th EXCEPT ![t].pc = "ret", ![t].resp = 404]

\* Mutant of PendingList: github_triggered is not looked at.
PendingList_StatusOnly ==
    {job_queue[j] : j \in {i \in JobIds :
        /\ job_queue[i] # 0
        /\ jobs[job_queue[i]].status = "pending"}}

\* get_pending_jobs(): the jobs listed, and the count
PendingList ==
    {job_queue[j] : j \in {i \in JobIds :
        /\ job_queue[i] # 0
        /\ jobs[job_queue[i]].status = "pending"
        /\ ~jobs[job_queue[i]].github_triggered}}

get_pending_jobs(t) ==
    /\ th[t].pc = "l_start"
    /\ th' = [th EXCEPT ![t].pc = "ret", ![t].resp = 200,
                 ![t].body = PendingList,
                 ![t].count = Cardinality(PendingList)]
    /\ UNCHANGED <<now, configured, user_sessions, jobs, job_queue, tasks,
                   triggers, h_claims, h_holder,
                   worker>>

\* Mutant of ClaimAllowed: a job that is being processed may be taken again.
ClaimAllowed_AlsoProcessing(job) == job.status \in {"pending", "processing"}

\* The guard of claim_job: the job may be taken.
ClaimAllowed(job) == job.status = "pending"

\* claim_job: the two early returns
ClaimCheck(t) ==
    LET obj == job_queue[th[t].job_id]
    IN
    /\ th[t].pc = "c_start"
    /\ IF obj = 0 THEN NotFound(t)
       ELSE IF ~ClaimAllowed(jobs[obj])
       THEN th' = [th EXCEPT ![t].pc = "ret", ![t].resp = 400, ![t].job = obj]
       ELSE th' = [th EXCEPT ![t].pc = "c_status", ![t].job = obj]
    /\ UNCHANGED <<now, configured, user_sessions, jobs, job_queue, tasks,
                   triggers, h_claims, h_holder,
                   worker>>

\* claim_job: job['status'] = 'processing'
ClaimStatus(t) ==
    /\ th[t].pc = "c_status"
    /\ jobs' = SetJob(th[t].job, "status", "processing")
    /\ th' = [th EXCEPT ![t].pc = "c_proc"]
    /\ UNCHANGED <<now, configured, user_sessions, job_queue, tasks, triggers,
                   h_claims, h_holder,
                   worker>>

\* claim_job: job['processor'] = 'local'; job['claimed_at'] = time.time()
ClaimProcessor(t) ==
    /\ th[t].pc = "c_proc"
    /\ jobs' = [jobs EXCEPT ![th[t].job].processor = "local",
                            ![th[t].job].claimed_at = now]
    /\ th' = [th EXCEPT ![t].pc = "c_send"]
    /\ UNCHANGED <<now, configured, user_sessions, job_queue, tasks, triggers,
                   h_claims, h_holder,
                   worker>>

\* claim_job: the "Local PC connected!" message, then the 200 answer
ClaimSend(t) ==
    /\ SendMessage(t, "c_send", "local_connected", "ret", 200)
    /\ UNCHANGED <<now, configured, user_sessions, jobs, job_queue, tasks,
                   triggers, h_claims, h_holder,
                   worker>>

\* complete_job: the early return
CompleteCheck(t) ==
    LET obj == job_queue[th[t].job_id]
    IN
    /\ th[t].pc = "k_start"
    /\ IF obj = 0 THEN NotFound(t)
       ELSE th' = [th EXCEPT ![t].pc = "k_write", ![t].job = obj]
    /\ UNCHANGED <<now, configured, user_sessions, jobs, job_queue, tasks,
                   triggers, h_claims, h_holder,
                   worker>>

\* complete_job: job['status'] = 'completed'; job['completed_at'] = time.time()
CompleteWrite(t) ==
    /\ th[t].pc = "k_write"
    /\ jobs' = [jobs EXCEPT ![th[t].job].status = "completed",
                            ![th[t].job].completed_at = now]
    /\ th' = [th EXCEPT ![t].pc = "ret", ![t].resp = 200]
    /\ UNCHANGED <<now, configured, user_sessions, job_queue, tasks, triggers,
                   h_claims, h_holder,
                   worker>>

\* The guard of fail_job's fallback branch.
FallbackAllowed(fallback, job) == fallback /\ ~job.github_triggered

\* fail_job: the early return and the branch
FailCheck(t) ==
    LET obj == job_queue[th[t].job_id]
    IN
    /\ th[t].pc = "f_start"
    /\ IF obj = 0 THEN NotFound(t)
       ELSE IF FallbackAllowed(th[t].fb, jobs[obj])
       THEN th' = [th EXCEPT ![t].pc = "f_flag", ![t].job = obj,
                       ![t].gt0 = jobs[obj].github_triggered]
       ELSE th' = [th EXCEPT ![t].pc = "f_failed", ![t].job = obj,
                       ![t].gt0 = jobs[obj].github_triggered]
    /\ UNCHANGED <<now, configured, user_sessions, jobs, job_queue, tasks,
                   triggers, h_claims, h_holder,
                   worker>>

\* fail_job, fallback: job['github_triggered'] = True
FailFlag(t) ==
    /\ th[t].pc = "f_flag"
    /\ jobs' = SetJob(th[t].job, "github_triggered", TRUE)
    /\ th' = [th EXCEPT ![t].pc = "f_proc"]
    /\ UNCHANGED <<now, configured, user_sessions, job_queue, tasks, triggers,
                   h_claims, h_holder,
                   worker>>

\* fail_job, fallback: job['processor'] = 'github'
FailProcessor(t) ==
    /\ th[t].pc = "f_proc"
    /\ jobs' = SetJob(th[t].job, "processor", "github")
    /\ th' = [th EXCEPT ![t].pc = "f_status"]
    /\ UNCHANGED <<now, configured, user_sessions, job_queue, tasks, triggers,
                   h_claims, h_holder,
                   worker>>

\* fail_job, fallback: job['status'] = 'processing'
FailStatus(t) ==
    /\ th[t].pc = "f_status"
    /\ jobs' = SetJob(th[t].job, "status", "processing")
    /\ th' = [th EXCEPT ![t].pc = "f_send"]
    /\ UNCHANGED <<now, configured, user_sessions, job_queue, tasks, triggers,
                   h_claims, h_holder,
                   worker>>

\* fail_job, fallback: the "Falling back to cloud..." message
FailSend(t) ==
    /\ SendMessage(t, "f_send", "falling_back", "f_trigger", 0)
    /\ UNCHANGED <<now, configured, user_sessions, jobs, job_queue, tasks,
                   triggers, h_claims, h_holder,
                   worker>>

\* fail_job, fallback: trigger_github_action(job), its result dropped
FailTrigger(t) ==
    /\ th[t].pc = "f_trigger"
    /\ \E o \in PostOutcomes :
          LET r == trigger_github_action(o)
          IN  /\ triggers' = Append(triggers, TriggerCall(th[t].job, "fail", r))
              /\ th' = IF r.raised
                       THEN [th EXCEPT ![t].pc = "ret", ![t].resp = 500]
                       ELSE [th EXCEPT ![t].pc = "ret", ![t].resp = 200,
                                       ![t].ok = r.success]
    /\ UNCHANGED <<now, configured, user_sessions, jobs, job_queue, tasks,
                   h_claims, h_holder,
                   worker>>

\* fail_job, no fallback: job['status'] = 'failed'
FailFailed(t) ==
    /\ th[t].pc = "f_failed"
    /\ jobs' = SetJob(th[t].job, "status", "failed")
    /\ th' = [th EXCEPT ![t].pc = "f_send_failed"]
    /\ UNCHANGED <<now, configured, user_sessions, job_queue, tasks, triggers,
                   h_claims, h_holder,
                   worker>>

\* fail_job, no fallback: the "Processing failed" message
FailSendFailed(t) ==
    /\ SendMessage(t, "f_send_failed", "processing_failed", "ret", 200)
    /\ UNCHANGED <<now, configured, user_sessions, jobs, job_queue, tasks,
                   triggers, h_claims, h_holder,
                   worker>>

\* Mutant of Relays: an empty message is relayed too.
Relays_Always(message) == TRUE

\* "if message:" of update_progress: an absent or empty message is not sent.
Relays(message) == message # ""

\* update_progress: the early return and the empty message
ProgressCheck(t) ==
    /\ th[t].pc = "p_start"
    /\ IF job_queue[th[t].job_id] = 0 THEN NotFound(t)
       ELSE IF ~Relays(th[t].text)
       THEN th' = [th EXCEPT ![t].pc = "ret", ![t].resp = 200,
                       ![t].job = job_queue[th[t].job_id]]
       ELSE th' = [th EXCEPT ![t].pc = "p_send",
                       ![t].job = job_queue[th[t].job_id]]
    /\ UNCHANGED <<now, configured, user_sessions, jobs, job_queue, tasks,
                   triggers, h_claims, h_holder,
                   worker>>

\* update_progress: send_message(job['chat_id'], message)
ProgressSend(t) ==
    /\ SendMessage(t, "p_send", th[t].text, "ret", 200)
    /\ UNCHANGED <<now, configured, user_sessions, jobs, job_queue, tasks,
                   triggers, h_claims, h_holder,
                   worker>>

\* ------------------------------------------- check_and_trigger_github
\* Mutant of EscalationDue: the status is not looked at.
EscalationDue_NoStatusCheck(job) == ~job.github_triggered

\* The guard of the escalation: still pending and not yet sent to GitHub.
EscalationDue(job) == job.status = "pending" /\ ~job.github_triggered

\* A send_message call of escalation thread k: an exception ends the thread.
TaskSend(k, p, m, q) ==
    /\ tasks[k].pc = p
    /\ \/ tasks' = [tasks EXCEPT ![k].pc = q, ![k].sent = Append(@, m)]
       \/ tasks' = [tasks EXCEPT ![k].pc = "dead"]

\* History: what the thread found when its wait ended.
WokeOn(obj) ==
    IF obj = 0 THEN "gone"
    ELSE IF h_claims[obj] > 0 THEN "claimed"
    ELSE IF jobs[obj].status = "pending" /\ ~jobs[obj].github_triggered
                /\ jobs[obj].processor = "None" THEN "untouched"
    ELSE "touched"

\* time.sleep(LOCAL_WAIT_SECONDS) is over: the two early exits
EscalationWake(k) ==
    LET obj == job_queue[tasks[k].job_id]
    IN
    /\ tasks[k].pc = "sleep"
    /\ IF obj # 0 /\ EscalationDue(jobs[obj])
       THEN tasks' = [tasks EXCEPT ![k].pc = "t_flag", ![k].job = obj,
                                   ![k].woke = WokeOn(obj)]
       ELSE tasks' = [tasks EXCEPT ![k].pc = "done", ![k].job = obj,
                                   ![k].woke = WokeOn(obj)]
    /\ UNCHANGED <<now, configured, user_sessions, jobs, job_queue, th,
                   triggers, h_claims, h_holder,
                   worker>>

\* job['github_triggered'] = True
EscalationFlag(k) ==
    /\ tasks[k].pc = "t_flag"
    /\ jobs' = SetJob(tasks[k].job, "github_triggered", TRUE)
    /\ tasks' = [tasks EXCEPT ![k].pc = "t_proc"]
    /\ UNCHANGED <<now, configured, user_sessions, job_queue, th, triggers,
                   h_claims, h_holder,
                   worker>>

\* job['processor'] = 'github'
EscalationProcessor(k) ==
    /\ tasks[k].pc = "t_proc"
    /\ jobs' = SetJob(tasks[k].job, "processor", "github")
    /\ tasks' = [tasks EXCEPT ![k].pc = "t_send"]
    /\ UNCHANGED <<now, configured, user_sessions, job_queue, th, triggers,
                   h_claims, h_holder,
                   worker>>

\* The "Local PC not available" message
EscalationSend(k) ==
    /\ TaskSend(k, "t_send", "local_unavailable", "t_trigger")
    /\ UNCHANGED <<now, configured, user_sessions, jobs, job_queue, th,
                   triggers, h_claims, h_holder,
                   worker>>

\* success, message = trigger_github_action(job)
EscalationTrigger(k) ==
    /\ tasks[k].pc = "t_trigger"
    /\ \E o \in PostOutcomes :
          LET r == trigger_github_action(o)
          IN  /\ triggers' = Append(triggers, TriggerCall(tasks[k].job, "timer", r))
              /\ tasks' = IF r.raised
                          THEN [tasks EXCEPT ![k].pc = "dead"]
                          ELSE [tasks EXCEPT ![k].pc = "t_status",
                                             ![k].ok = r.success]
    /\ UNCHANGED <<now, configured, user_sessions, jobs, job_queue, th,
                   h_claims, h_holder,
                   worker>>

\* job['status'] = 'processing' or 'failed'
EscalationStatus(k) ==
    /\ tasks[k].pc = "t_status"
    /\ jobs' = SetJob(tasks[k].job, "status",
                      IF tasks[k].ok THEN "processing" ELSE "failed")
    /\ tasks' = [tasks EXCEPT ![k].pc = "t_notify"]
    /\ UNCHANGED <<now, configured, user_sessions, job_queue, th, triggers,
                   h_claims, h_holder,
                   worker>>

\* The "Cloud processing started!" or "Failed to start processing" message
EscalationNotify(k) ==
    /\ TaskSend(k, "t_notify",
                IF tasks[k].ok THEN "cloud_started" ELSE "start_failed", "done")
    /\ UNCHANGED <<now, configured, user_sessions, jobs, job_queue, th,
                   triggers, h_claims, h_holder,
                   worker>>

\* ------------------------------------------------------ specifications
\* The steps of handle_message after the message arrived.
WebhookStep(t) ==
    \/ HandleStart(t) \/ HandleDraft(t) \/ HandleStage(t)
    \/ HandleReply(t) \/ HandleReset(t) \/ create_job(t)
    \/ HandleChoice(t) \/ HandleCloudFlag(t) \/ HandleCloudProcessor(t)
    \/ HandleCloudSend(t) \/ HandleCloudTrigger(t) \/ HandleCloudStatus(t)
    \/ HandleAutoSend(t) \/ HandleAutoThread(t)

claim_job(t) ==
    ClaimCheck(t) \/ ClaimStatus(t) \/ ClaimProcessor(t) \/ ClaimSend(t)

complete_job(t) == CompleteCheck(t) \/ CompleteWrite(t)

fail_job(t) ==
    \/ FailCheck(t) \/ FailFlag(t) \/ FailProcessor(t) \/ FailStatus(t)
    \/ FailSend(t) \/ FailTrigger(t) \/ FailFailed(t) \/ FailSendFailed(t)

update_progress(t) == ProgressCheck(t) \/ ProgressSend(t)

\* The steps of one escalation thread.
check_and_trigger_github(k) ==
    \/ EscalationWake(k) \/ EscalationFlag(k) \/ EscalationProcessor(k)
    \/ EscalationSend(k) \/ EscalationTrigger(k) \/ EscalationStatus(k)
    \/ EscalationNotify(k)

\* The dispatcher: one webhook call and one worker call in flight at a time,
\* racing each other and the escalation threads.
Next ==
    \/ Tick
    \/ ReceiveMessage(1, DispatchTexts, MaxJobs) \/ WebhookStep(1) \/ Return(1)
    \/ ReceivePending(2) \/ ReceiveClaim(2) \/ ReceiveProgress(2)
    \/ ReceiveComplete(2) \/ ReceiveFail(2)
    \/ get_pending_jobs(2) \/ claim_job(2) \/ complete_job(2) \/ fail_job(2)
    \/ update_progress(2) \/ Return(2)
    \/ \E k \in 1..Len(tasks) : check_and_trigger_github(k)

Spec == Init /\ [][Next]_vars

\* The intake alone: one chat whose messages are handled one at a time, and
\* the escalation threads it starts; no worker polls.
NextIntake ==
    \/ Tick
    \/ ReceiveMessage(1, IntakeTexts, MaxJobs) \/ WebhookStep(1) \/ Return(1)
    \/ \E k \in 1..Len(tasks) : check_and_trigger_github(k)

SpecIntake == Init /\ [][NextIntake]_vars

\* Two workers polling the same bot: two claim calls in flight at a time.
NextRace ==
    \/ ReceiveMessage(1, DispatchTexts, MaxJobs) \/ WebhookStep(1) \/ Return(1)
    \/ \E t \in {2, 3} : ReceiveClaim(t) \/ claim_job(t) \/ Return(t)
    \/ \E k \in 1..Len(tasks) : check_and_trigger_github(k)

SpecRace == Init /\ [][NextRace]_vars

\* Intakes that follow each other within one clock millisecond (the clock
\* does not advance), so that generate_job_id returns the same id again.
NextSameMs ==
    \/ ReceiveMessage(1, DispatchTexts, MaxJobs + 1) \/ WebhookStep(1) \/ Return(1)
    \/ \E k \in 1..Len(tasks) : check_and_trigger_github(k)

SpecSameMs == Init /\ [][NextSameMs]_vars

\* ------------------------------------------------------ cleanup_old_jobs
\* The time to live of a job in seconds (3600), and in clock units.
TTLSeconds == 3600

TTL == TTLSeconds * 1000

\* Mutant of Expired: a job whose age equals the time to live is old too.
Expired_AtTTL(job) == now - job.created_at >= TTL

\* current_time - job['created_at'] > 3600
Expired(job) == now - job.created_at > TTL

\* cleanup_old_jobs(): every old entry is deleted from job_queue.  No code
\* of the repository calls the function; the step models one call of it,
\* made while no request is being served.
cleanup_old_jobs ==
    /\ \A t \in Threads : th[t].pc = "idle"
    /\ job_queue' = [j \in JobIds |->
                        IF job_queue[j] # 0 /\ Expired(jobs[job_queue[j]])
                        THEN 0 ELSE job_queue[j]]
    /\ UNCHANGED <<now, configured, user_sessions, jobs, th, tasks, triggers,
                   h_claims, h_holder,
                   worker>>

\* About an hour passes while no request is being served.
Elapse ==
    /\ now <= MaxTime
    /\ \A t \in Threads : th[t].pc = "idle"
    /\ \E d \in {TTL, TTL + 1} : now' = now + d
    /\ UNCHANGED <<configured, user_sessions, jobs, job_queue, th, tasks,
                   triggers, h_claims, h_holder,
                   worker>>

\* Intakes at different times, an hour's wait, and calls of the sweep.  No
\* message arrives after the wait (the ids of the model end at MaxTime).
NextSweep ==
    \/ Tick
    \/ (now <= MaxTime /\ ReceiveMessage(1, DispatchTexts, MaxJobs + 1))
    \/ WebhookStep(1) \/ Return(1)
    \/ Elapse
    \/ cleanup_old_jobs
    \/ \E k \in 1..Len(tasks) : check_and_trigger_github(k)

SpecSweep == Init /\ [][NextSweep]_vars

\* Two webhook requests at a time: Flask serves each request in a thread of
\* its own, so two messages of one chat can be inside handle_message
\* together.
NextTwoWebhooks ==
    \/ Tick
    \/ \E t \in {1, 3} :
          \/ ReceiveMessage(t, RestartTexts, MaxJobs + 1)
          \/ WebhookStep(t)
          \/ Return(t)
    \/ \E k \in 1..Len(tasks) : check_and_trigger_github(k)

SpecTwoWebhooks == Init /\ [][NextTwoWebhooks]_vars

\* ------------------------------------------------------- the local worker
\* local_processor.py: main() polls the pending list, claims each listed
\* job in turn, and runs process_job on the jobs it could claim.  The worker
\* makes one request at a time and waits for its answer; thread t of the
\* coordinator serves it.

\* Mutant of ClaimReturnsJob: the 'already claimed' answer counts as well.
ClaimReturnsJob_AnyAnswer(resp) == resp \in {200, 400}

\* claim_job of the worker returns the job only for status code 200.
ClaimReturnsJob(resp) == resp = 200

\* jobs = get_pending_jobs(): the GET request is sent
WorkerPoll(t) ==
    /\ worker.pc = "poll" /\ th[t].pc = "idle"
    /\ th' = [th EXCEPT ![t] = [IdleThread EXCEPT !.pc = "l_start",
                                    !.kind = "pending"]]
    /\ worker' = [worker EXCEPT !.pc = "polling"]
    /\ UNCHANGED <<now, configured, user_sessions, jobs, job_queue, tasks,
                   triggers, h_claims, h_holder>>

\* get_pending_jobs returns the listed jobs, or [] when the request failed
WorkerList(t) ==
    /\ worker.pc = "polling" /\ th[t].pc = "ret"
    /\ th' = [th EXCEPT ![t] = IdleThread]
    /\ \E lost \in BOOLEAN :
          worker' = [worker EXCEPT !.pc = "loop",
                        !.jobs = IF lost \/ th[t].resp # 200 THEN {}
                                 ELSE {jobs[o].job_id : o \in th[t].body}]
    /\ UNCHANGED <<now, configured, user_sessions, jobs, job_queue, tasks,
                   triggers, h_claims, h_holder>>

\* for job in jobs: claim_job(job['job_id']); after the last one the sleep
\* and the next poll
WorkerNext(t) ==
    /\ worker.pc = "loop" /\ th[t].pc = "idle"
    /\ IF worker.jobs = {}
       THEN /\ worker' = [worker EXCEPT !.pc = "poll"]
            /\ th' = th
       ELSE \E j \in worker.jobs :
               /\ worker' = [worker EXCEPT !.pc = "claiming", !.job_id = j,
                                           !.jobs = @ \ {j}]
               /\ th' = [th EXCEPT ![t] = [IdleThread EXCEPT !.pc = "c_start",
                                               !.kind = "claim", !.job_id = j]]
    /\ UNCHANGED <<now, configured, user_sessions, jobs, job_queue, tasks,
                   triggers, h_claims, h_holder>>

\* claimed_job = claim_job(...): the job for a 200 answer, None for every
\* other answer and for a failed request; "if claimed_job:"
WorkerClaimed(t) ==
    /\ worker.pc = "claiming" /\ th[t].pc = "ret"
    /\ th' = [th EXCEPT ![t] = IdleThread]
    /\ IF th[t].resp = 200
       THEN /\ h_claims' = [h_claims EXCEPT ![th[t].job] = @ + 1]
            /\ h_holder' = h_holder \cup {th[t].job}
       ELSE UNCHANGED <<h_claims, h_holder>>
    /\ \E lost \in BOOLEAN :
          IF ~lost /\ ClaimReturnsJob(th[t].resp)
          THEN worker' = [worker EXCEPT !.pc = "process",
                             !.claimed = @ \cup {worker.job_id}]
          ELSE worker' = [worker EXCEPT !.pc = "loop"]
    /\ UNCHANGED <<now, configured, user_sessions, jobs, job_queue, tasks,
                   triggers>>

\* process_job(claimed_job) starts: update_progress(job_id, "Downloading
\* video...")
WorkerProcess(t) ==
    /\ worker.pc = "process" /\ th[t].pc = "idle"
    /\ th' = [th EXCEPT ![t] = [IdleThread EXCEPT !.pc = "p_start",
                 !.kind = "progress", !.job_id = worker.job_id,
                 !.text = "Downloading video..."]]
    /\ worker' = [worker EXCEPT !.pc = "progressing",
                     !.started = Append(@, worker.job_id)]
    /\ UNCHANGED <<now, configured, user_sessions, jobs, job_queue, tasks,
                   triggers, h_claims, h_holder>>

\* update_progress returns, whatever the answer; the work goes on
WorkerProgressed(t) ==
    /\ worker.pc = "progressing" /\ th[t].pc = "ret"
    /\ th' = [th EXCEPT ![t] = IdleThread]
    /\ worker' = [worker EXCEPT !.pc = "work"]
    /\ UNCHANGED <<now, configured, user_sessions, jobs, job_queue, tasks,
                   triggers, h_claims, h_holder>>

\* process_job ends: complete_job(job_id) at the end of the try block, or
\* fail_job(job_id, str(e), fallback=True) in its except clause
WorkerReport(t) ==
    /\ worker.pc = "work" /\ th[t].pc = "idle"
    /\ \E kind \in {"complete", "fail"} :
          /\ th' = [th EXCEPT ![t] =
                IF kind = "complete"
                THEN [IdleThread EXCEPT !.pc = "k_start", !.kind = "complete",
                                        !.job_id = worker.job_id]
                ELSE [IdleThread EXCEPT !.pc = "f_start", !.kind = "fail",
                                        !.job_id = worker.job_id, !.fb = TRUE]]
          /\ worker' = [worker EXCEPT !.pc = "reporting",
                !.reports = Append(@, [job_id |-> worker.job_id, kind |-> kind])]
    /\ h_holder' = h_holder \ {job_queue[worker.job_id]}
    /\ UNCHANGED <<now, configured, user_sessions, jobs, job_queue, tasks,
                   triggers, h_claims>>

\* the report request returns (its answer is not looked at); next job
WorkerReported(t) ==
    /\ worker.pc = "reporting" /\ th[t].pc = "ret"
    /\ th' = [th EXCEPT ![t] = IdleThread]
    /\ worker' = [worker EXCEPT !.pc = "loop"]
    /\ UNCHANGED <<now, configured, user_sessions, jobs, job_queue, tasks,
                   triggers, h_claims, h_holder>>

main(t) ==
    \/ WorkerPoll(t) \/ WorkerList(t) \/ WorkerNext(t) \/ WorkerClaimed(t)
    \/ WorkerProcess(t) \/ WorkerProgressed(t) \/ WorkerReport(t)
    \/ WorkerReported(t)

\* One chat and the local worker, served by thread 2.
NextWorker ==
    \/ Tick
    \/ ReceiveMessage(1, DispatchTexts, MaxJobs)
    \/ WebhookStep(1) \/ Return(1)
    \/ main(2)
    \/ get_pending_jobs(2) \/ claim_job(2) \/ complete_job(2)
    \/ fail_job(2) \/ update_progress(2)
    \/ \E k \in 1..Len(tasks) : check_and_trigger_github(k)

SpecWorker == Init /\ [][NextWorker]_vars

\* The intake under fair scheduling: a request thread that can take its
\* next step takes it, and so does an escalation thread (the interpreter
\* switches between the threads; time.sleep returns).  No request has to
\* arrive and the clock is not required to be read at any particular value.
SpecIntakeFair ==
    /\ SpecIntake
    /\ WF_vars(WebhookStep(1))
    /\ WF_vars(Return(1))
    /\ WF_vars(\E k \in 1..Len(tasks) : check_and_trigger_github(k))

\* ---------------------------------------------------------------- claims
\* The calls of trigger_github_action made for job object o.
TriggersFor(o) == {i \in 1..Len(triggers) : triggers[i].obj = o}

\* C1: of the claim requests on one pending job at most one is answered
\* with the success response; two claim requests never both succeed.
C1_ExactlyOneClaimWins == \A o \in 1..Len(jobs) : h_claims[o] <= 1

\* C2: at most one processor is active on a job: never does the local worker
\* hold a successful claim on a job (not yet reported complete or fail) for
\* which a remote trigger call has been issued.
C2_AtMostOneProcessor ==
    \A o \in 1..Len(jobs) :
        ~(o \in h_holder /\ \E i \in TriggersFor(o) : triggers[i].posted)

\* C3: trigger_github_action is invoked at most once per job, whichever of
\* the cloud path, the escalation thread and fail_job invoke it.
C3_TriggerAtMostOnce == \A o \in 1..Len(jobs) : Cardinality(TriggersFor(o)) <= 1

\* C4: when the wait of an escalation thread ends on a job for which a claim
\* request has already been answered with success, the thread ends at once:
\* no trigger call, no message, no job field changed, and it never acts again.
C4_ClaimBeforeWindowStopsEscalation ==
    [][\A k \in 1..Len(tasks) :
          /\ (/\ tasks[k].pc = "sleep"
              /\ tasks'[k].pc # "sleep"
              /\ job_queue[tasks[k].job_id] # 0
              /\ h_claims[job_queue[tasks[k].job_id]] > 0)
             => /\ tasks'[k].pc = "done"
                /\ tasks'[k].sent = <<>>
                /\ jobs' = jobs
                /\ triggers' = triggers
          /\ tasks[k].woke = "claimed"
             => /\ tasks[k].pc = "done"
                /\ tasks'[k] = tasks[k]]_vars

\* Witness of C4: an escalation thread woke on a claimed job and ended.
C4_Witness ==
    \E k \in 1..Len(tasks) :
        /\ tasks[k].woke = "claimed"
        /\ tasks[k].pc = "done"
        /\ jobs[tasks[k].job].processor = "local"

\* C5: an escalation thread whose wait ended on a job nobody had touched
\* makes exactly one trigger call, and the job ends processing on github.
C5_EscalationTriggersOnce ==
    \A k \in 1..Len(tasks) :
        (tasks[k].woke = "untouched" /\ tasks[k].pc \in {"done", "dead"})
        => /\ Cardinality({i \in TriggersFor(tasks[k].job) :
                               triggers[i].by = "timer"}) = 1
           /\ jobs[tasks[k].job].status = "processing"
           /\ jobs[tasks[k].job].processor = "github"

\* C6: a job created with the local choice never has github_triggered set
\* and never causes a trigger call.
C6_LocalOnlyNeverRemote ==
    \A o \in 1..Len(jobs) :
        jobs[o].processor_choice = "local"
        => ~jobs[o].github_triggered /\ TriggersFor(o) = {}

\* C7: when fail_job answers, the job is processing on github if fallback
\* was allowed, github_triggered was false and the job is not local-only,
\* and it is failed otherwise.
C7_FailOutcome ==
    \A t \in Threads :
        (th[t].kind = "fail" /\ th[t].pc = "ret" /\ th[t].resp = 200)
        => IF /\ th[t].fb
              /\ ~th[t].gt0
              /\ jobs[th[t].job].processor_choice # "local"
           THEN /\ jobs[th[t].job].status = "processing"
                /\ jobs[th[t].job].processor = "github"
           ELSE jobs[th[t].job].status = "failed"

\* The mode each button of the "Where to process?" keyboard offers.
MenuMode(text) ==
    CASE text = LocalButton -> "local"
      [] text = CloudButton -> "cloud"
      [] text = AutoButton -> "auto"
      [] OTHER -> "-"

\* C8: a button of the processor keyboard, sent in the waiting_processor
\* stage, creates the job with the mode the button offers, and the Auto
\* button starts an escalation thread for the job.
C8_MenuOptionKeepsMode ==
    \A t \in Threads :
        (/\ th[t].kind = "message"
         /\ th[t].pc = "ret"
         /\ th[t].resp = 200
         /\ th[t].sess0.state = "waiting_processor"
         /\ th[t].text \in {LocalButton, CloudButton, AutoButton})
        => /\ jobs[job_queue[th[t].job_id]].processor_choice = MenuMode(th[t].text)
           /\ th[t].text = AutoButton
              => \E k \in 1..Len(tasks) : tasks[k].job_id = th[t].job_id

\* The escalation threads started for job_id j have all ended.
EscalationOver(j) ==
    \A k \in 1..Len(tasks) :
        tasks[k].job_id = j => tasks[k].pc \in {"done", "dead"}

\* C9: create_job stores one new job with the session's source, clip count
\* and duration, pending, unassigned and not triggered; and for an auto job
\* that no worker claims there is, once the handler has returned and the
\* escalation is over, exactly one trigger call, carrying the job's fields.
C9_IntakeCreatesJobAndEscalates ==
    /\ \A t \in Threads :
          th[t].pc = "h_choice"
          => LET o == job_queue[th[t].job_id]
                 sess == user_sessions[th[t].chat]
             IN  /\ o = Len(jobs)
                 /\ jobs[o].job_id = th[t].job_id
                 /\ jobs[o].chat_id = Str(th[t].chat)
                 /\ jobs[o].youtube_url = sess.youtube_url
                 /\ jobs[o].num_clips = sess.num_clips
                 /\ jobs[o].clip_duration = sess.clip_duration
                 /\ jobs[o].status = "pending"
                 /\ jobs[o].processor = "None"
                 /\ ~jobs[o].github_triggered
    /\ \A o \in 1..Len(jobs) :
          (/\ jobs[o].processor_choice = "auto"
           /\ h_claims[o] = 0
           /\ \A t \in Threads : th[t].pc = "idle"
           /\ EscalationOver(jobs[o].job_id))
          => /\ Cardinality(TriggersFor(o)) = 1
             /\ \A i \in TriggersFor(o) :
                   /\ triggers[i].job_id = jobs[o].job_id
                   /\ triggers[i].chat_id = jobs[o].chat_id
                   /\ triggers[i].youtube_url = jobs[o].youtube_url
                   /\ triggers[i].num_clips = jobs[o].num_clips
                   /\ triggers[i].clip_duration = jobs[o].clip_duration

\* The message is a decimal integer from 1 to 5.
IsCountOneToFive(text) == IsDigit(text) /\ IntOf(text) \in 1..5

\* The handler of thread t, started in the waiting_num_clips stage, has
\* returned.
ClipCountHandled(t) ==
    /\ th[t].kind = "message"
    /\ th[t].pc = "ret"
    /\ th[t].sess0.state = "waiting_num_clips"

\* C10 as stated: in the waiting_num_clips stage an integer from 1 to 5 moves
\* the session to waiting_duration and is stored as num_clips; any other
\* message leaves the session's stage and draft as they were.
C10_ClipCountStage ==
    \A t \in Threads :
        ClipCountHandled(t)
        => IF IsCountOneToFive(th[t].text)
           THEN user_sessions[th[t].chat] =
                    [th[t].sess0 EXCEPT !.state = "waiting_duration",
                                        !.num_clips = IntOf(th[t].text)]
           ELSE user_sessions[th[t].chat] = th[t].sess0

\* C10 as amended: ... any other message except /start leaves the session's
\* stage and draft as they were; /start sets the stage to idle and leaves
\* the draft.  Step by step: only the two assignments of the accepting
\* branch, and the one of /start, change the session.
C10_ClipCountStageExceptStart ==
    /\ [](\A t \in Threads :
            ClipCountHandled(t)
            => IF IsCountOneToFive(th[t].text)
               THEN user_sessions[th[t].chat] =
                        [th[t].sess0 EXCEPT !.state = "waiting_duration",
                                            !.num_clips = IntOf(th[t].text)]
               ELSE IF th[t].text = "/start"
               THEN user_sessions[th[t].chat] =
                        [th[t].sess0 EXCEPT !.state = "idle"]
               ELSE user_sessions[th[t].chat] = th[t].sess0)
    /\ [][\A t \in Threads :
            (/\ th[t].kind = "message"
             /\ th'[t] # th[t]
             /\ IF th[t].pc = "h_start"
                THEN user_sessions[th[t].chat].state = "waiting_num_clips"
                ELSE th[t].sess0.state = "waiting_num_clips"
             /\ th[t].text # "/start")
            => \/ user_sessions' = user_sessions
               \/ /\ IsCountOneToFive(th[t].text)
                  /\ th[t].pc = "h_draft"
                  /\ user_sessions' = [user_sessions EXCEPT
                         ![th[t].chat].num_clips = IntOf(th[t].text)]
               \/ /\ IsCountOneToFive(th[t].text)
                  /\ th[t].pc = "h_stage"
                  /\ user_sessions' = [user_sessions EXCEPT
                         ![th[t].chat].state = "waiting_duration"]]_vars

\* Witness of C10: "5" was accepted in the waiting_num_clips stage of a
\* session whose draft held another clip count before.
C10_Witness ==
    \E t \in Threads :
        /\ ClipCountHandled(t)
        /\ th[t].text = "5"
        /\ th[t].sess0.num_clips = 2
        /\ user_sessions[th[t].chat].num_clips = 5
        /\ user_sessions[th[t].chat].state = "waiting_duration"

\* The job objects stored in job_queue.
Registered == {o \in 1..Len(jobs) : \E j \in JobIds : job_queue[j] = o}

\* C11: the list get_pending_jobs answers with holds exactly the registered
\* jobs that are pending with github_triggered false when the list is built,
\* its count is the number of listed jobs, and no job with github_triggered
\* set is listed.
C11_PendingListExact ==
    [][\A t \in Threads :
          (th[t].pc = "l_start" /\ th'[t].pc = "ret")
          => /\ th'[t].resp = 200
             /\ th'[t].body = {o \in Registered :
                                  /\ jobs[o].status = "pending"
                                  /\ ~jobs[o].github_triggered}
             /\ th'[t].count = Cardinality(th'[t].body)
             /\ \A o \in th'[t].body : ~jobs[o].github_triggered]_vars

\* Witness of C11: the list was answered empty while the registry holds a
\* pending job whose github_triggered is set.
C11_Witness ==
    \E t \in Threads :
        /\ th[t].kind = "pending"
        /\ th[t].pc = "ret"
        /\ th[t].body = {}
        /\ th[t].count = 0
        /\ \E o \in Registered :
              jobs[o].status = "pending" /\ jobs[o].github_triggered

\* C12: a job created with the cloud choice is never in a pending list the
\* worker receives, no claim request on it is answered with success, and
\* when the intake handler returns the job is processing or failed with
\* github_triggered true and processor github.
C12_CloudNeverLocal ==
    /\ \A o \in 1..Len(jobs) :
          jobs[o].processor_choice = "cloud"
          => /\ h_claims[o] = 0
             /\ \A t \in Threads :
                   (th[t].kind = "pending" /\ th[t].pc = "ret")
                   => o \notin th[t].body
    /\ \A t \in Threads :
          (th[t].kind = "message" /\ th[t].pc = "ret" /\ th[t].choice = "cloud")
          => LET o == job_queue[th[t].job_id]
             IN  /\ jobs[o].status \in {"processing", "failed"}
                 /\ jobs[o].github_triggered
                 /\ jobs[o].processor = "github"

\* C13: for a job created with the local choice nothing happens on its own:
\* its intake handler starts no escalation thread, and its status, processor
\* and github_triggered change only in a step of a claim, complete or fail
\* request on that job.
C13_LocalOnlyNoAutomaticAction ==
    [][/\ \A o \in 1..Len(jobs) :
             jobs[o].processor_choice = "local"
             => \/ /\ jobs'[o].status = jobs[o].status
                   /\ jobs'[o].processor = jobs[o].processor
                   /\ jobs'[o].github_triggered = jobs[o].github_triggered
                \/ \E t \in Threads :
                      /\ th[t].kind \in {"claim", "complete", "fail"}
                      /\ th[t].job = o
                      /\ th'[t] # th[t]
       /\ \A t \in Threads :
             (th[t].choice = "local" /\ th'[t] # th[t]) => tasks' = tasks]_vars

\* C14: the status of a job moves only pending -> processing ->
\* completed or failed, or failed -> processing; never from pending straight
\* to completed or failed, and never away from completed.
C14_StatusMoves ==
    [][\A o \in 1..Len(jobs) :
          LET a == jobs[o].status
              b == jobs'[o].status
          IN  \/ a = b
              \/ a = "pending" /\ b = "processing"
              \/ a = "processing" /\ b \in {"completed", "failed"}
              \/ a = "failed" /\ b = "processing"]_vars

\* C15: a complete request on a job whose status is completed or failed
\* changes neither the status nor completed_at of the job.
C15_CompleteOnTerminalIsNoOp ==
    [][\A t \in Threads :
          (/\ th[t].kind = "complete"
           /\ th[t].pc = "k_write"
           /\ th'[t] # th[t]
           /\ jobs[th[t].job].status \in {"completed", "failed"})
          => /\ jobs'[th[t].job].status = jobs[th[t].job].status
             /\ jobs'[th[t].job].completed_at = jobs[th[t].job].completed_at]_vars

\* C16: a claim request on an unknown job_id is answered 404 and one on a
\* registered job that is not pending is answered 400; in both cases the
\* handler changes no job and sends no message, up to its return.
C16_ClaimRejections ==
    [][\A t \in Threads :
          /\ (th[t].pc = "c_start" /\ th'[t] # th[t])
             => LET obj == job_queue[th[t].job_id]
                IN  /\ obj = 0
                       => /\ th'[t].pc = "ret" /\ th'[t].resp = 404
                          /\ th'[t].sent = <<>> /\ jobs' = jobs
                    /\ (obj # 0 /\ jobs[obj].status # "pending")
                       => /\ th'[t].pc = "ret" /\ th'[t].resp = 400
                          /\ th'[t].sent = <<>> /\ jobs' = jobs
          /\ (th[t].kind = "claim" /\ th[t].resp \in {404, 400} /\ th'[t] # th[t])
             => /\ th[t].pc = "ret"
                /\ th'[t] = IdleThread
                /\ jobs' = jobs]_vars

\* Witness of C16: one claim request was answered 404 and another 400, and
\* neither sent a message.
C16_Witness ==
    \E t, u \in Threads :
        /\ th[t].kind = "claim" /\ th[t].pc = "ret" /\ th[t].resp = 404
        /\ th[t].sent = <<>>
        /\ th[u].kind = "claim" /\ th[u].pc = "ret" /\ th[u].resp = 400
        /\ th[u].sent = <<>>
        /\ jobs[th[u].job].status # "pending"

\* C17: when trigger_github_action reports failure the job is set to
\* failed, on the cloud path, in the escalation thread and in the fallback
\* of fail_job.
C17_TriggerFailureFailsJob ==
    [][/\ \A t \in Threads :
             /\ (th[t].pc = "h_cloud_status" /\ ~th[t].ok /\ th'[t] # th[t])
                => jobs'[job_queue[th[t].job_id]].status = "failed"
             /\ (/\ th[t].pc = "f_trigger"
                 /\ th'[t].pc = "ret" /\ th'[t].resp = 200 /\ ~th'[t].ok)
                => jobs'[th[t].job].status = "failed"
       /\ \A k \in 1..Len(tasks) :
             (tasks[k].pc = "t_status" /\ ~tasks[k].ok /\ tasks'[k] # tasks[k])
             => jobs'[tasks[k].job].status = "failed"]_vars

\* A path that has set github_triggered on job object o is still running.
DispatchInProgress(o) ==
    \/ \E k \in 1..Len(tasks) :
          /\ tasks[k].job = o
          /\ tasks[k].pc \in {"t_proc", "t_send", "t_trigger", "t_status"}
    \/ \E t \in Threads :
          \/ /\ th[t].kind = "message"
             /\ th[t].pc \in {"h_cloud_proc", "h_cloud_send", "h_cloud_trigger",
                              "h_cloud_status"}
             /\ job_queue[th[t].job_id] = o
          \/ /\ th[t].kind = "fail"
             /\ th[t].pc \in {"f_proc", "f_status"}
             /\ th[t].job = o

\* C18: an exception of an outbound call does not end the path that made
\* it, so that no job has github_triggered true and status pending once the
\* path that set the flag has ended.
C18_TransportErrorSwallowed ==
    \A o \in 1..Len(jobs) :
        (jobs[o].github_triggered /\ jobs[o].status = "pending")
        => DispatchInProgress(o)

\* C19: the webhook answers every chat message with the success response.
C19_WebhookAlwaysSucceeds ==
    \A t \in Threads :
        (th[t].kind = "message" /\ th[t].pc = "ret") => th[t].resp = 200

\* C20: every claim, complete and fail request that is answered with success
\* has sent one message to the job's chat, and so has every escalation
\* thread that ended after dispatching the job.
C20_TransitionsNotify ==
    /\ \A t \in Threads :
          (/\ th[t].kind \in {"claim", "complete", "fail"}
           /\ th[t].pc = "ret"
           /\ th[t].resp = 200)
          => Len(th[t].sent) = 1
    /\ \A k \in 1..Len(tasks) :
          (tasks[k].pc = "done" /\ tasks[k].woke = "untouched")
          => Len(tasks[k].sent) >= 1

\* C21: a call of the sweep deletes from the registry every job older than
\* the time to live, whatever its status, and leaves every other entry, and
\* every field of every job, as it was.
C21_SweepRemovesOnlyOld ==
    [][(\E j \in JobIds : job_queue[j] # 0 /\ job_queue'[j] = 0)
       => /\ \A j \in JobIds :
                job_queue'[j] =
                    IF /\ job_queue[j] # 0
                       /\ now - jobs[job_queue[j]].created_at > TTLSeconds * 1000
                    THEN 0 ELSE job_queue[j]
          /\ jobs' = jobs]_vars

\* Witness of C21: of two jobs with different ids the sweep deleted the older
\* one and kept the one whose age is exactly the time to live.
C21_Witness ==
    /\ Len(jobs) = 2
    /\ jobs[1].job_id # jobs[2].job_id
    /\ job_queue[jobs[1].job_id] = 0
    /\ job_queue[jobs[2].job_id] = 2
    /\ now - jobs[2].created_at = TTLSeconds * 1000

\* C22: /help and /status, in whatever stage they arrive, leave the stage
\* and the draft of the session as they are and create no job; /start sets
\* the stage to idle (and leaves the draft).
C22_CommandsKeepSession ==
    /\ [](\A t \in Threads :
            (th[t].kind = "message" /\ th[t].pc = "ret")
            => /\ th[t].text \in {"/help", "/status"}
                  => user_sessions[th[t].chat] = th[t].sess0
               /\ th[t].text = "/start"
                  => user_sessions[th[t].chat] =
                         [th[t].sess0 EXCEPT !.state = "idle"])
    /\ [][\A t \in Threads :
            (/\ th[t].kind = "message"
             /\ th[t].text \in {"/help", "/status", "/start"}
             /\ th'[t] # th[t])
            => /\ jobs' = jobs
               /\ job_queue' = job_queue
               /\ tasks' = tasks
               /\ th[t].pc # "h_start" => user_sessions' = user_sessions
               /\ th[t].pc = "h_start"
                  => user_sessions' = [user_sessions EXCEPT ![th[t].chat] =
                        [SessionOf(th[t].chat) EXCEPT !.state =
                            IF th[t].text = "/start" THEN "idle" ELSE @]]]_vars

\* Witness of C22: /status was answered in the waiting_processor stage of a
\* session with a full draft, which is as it was.
C22_Witness ==
    \E t \in Threads :
        /\ th[t].kind = "message" /\ th[t].pc = "ret" /\ th[t].resp = 200
        /\ th[t].text = "/status"
        /\ th[t].sess0.state = "waiting_processor"
        /\ th[t].sess0.clip_duration = 60
        /\ user_sessions[th[t].chat] = th[t].sess0

\* The else branch of each stage: the texts it refuses, and the prompt
\* it answers them with.
InvalidInput(state, text) ==
    /\ text \notin {"/start", "/help", "/status"}
    /\ CASE state = "idle" -> ~is_youtube_url(text)
         [] state = "waiting_num_clips" ->
                ~(IsDigit(text) /\ IntOf(text) \in 1..5)
         [] state = "waiting_duration" ->
                duration_map(text) \notin {30, 45, 60}
         [] state = "waiting_processor" ->
                processor_choice_of(text) \notin {"local", "cloud", "auto"}
         [] OTHER -> FALSE

CorrectivePrompt(state) ==
    CASE state = "idle" -> "bad_url"
      [] state = "waiting_num_clips" -> "bad_num_clips"
      [] state = "waiting_duration" -> "bad_duration"
      [] OTHER -> "bad_processor"

C24_ProgressOnlyRelays ==
    /\ [](\A t \in Threads :
            (th[t].kind = "progress" /\ th[t].pc = "ret")
            => /\ th[t].resp = 404 => th[t].sent = << >>
               /\ th[t].resp = 200
                  => th[t].sent = IF th[t].text = "" THEN << >>
                                  ELSE <<th[t].text>>
               /\ th[t].resp = 500 => th[t].text # "" /\ th[t].sent = << >>)
    /\ [][\A t \in Threads :
            (th[t].kind = "progress" /\ th'[t] # th[t])
            => /\ jobs' = jobs
               /\ job_queue' = job_queue
               /\ tasks' = tasks
               /\ triggers' = triggers
               /\ user_sessions' = user_sessions]_vars

\* Witness of C24: an empty progress message for a registered job was
\* answered 200 with nothing sent.
C24_Witness ==
    \E t \in Threads :
        /\ th[t].kind = "progress" /\ th[t].pc = "ret" /\ th[t].resp = 200
        /\ th[t].text = "" /\ th[t].sent = << >>
        /\ job_queue[th[t].job_id] # 0

\* C25: job ids are unique: create_job never writes its job over an entry
\* the registry already holds, also when two jobs are created within the
\* same clock millisecond.
C25_CreateNeverOverwrites ==
    [][Len(jobs') > Len(jobs)
       => job_queue[jobs'[Len(jobs')].job_id] = 0]_vars

\* C26: in every reachable state a registered job whose status is
\* 'processing' has its processor set.
C26_ProcessingHasProcessor ==
    \A j \in JobIds :
        (job_queue[j] # 0 /\ jobs[job_queue[j]].status = "processing")
        => jobs[job_queue[j]].processor \in {"local", "github"}

\* C27: a session whose stage is idle holds no draft job parameters (stated
\* for the moments at which no message of the chat is being handled).
C27_IdleHoldsNoDraft ==
    \A c \in Chats :
        (/\ user_sessions[c].state = "idle"
         /\ \A t \in Threads : ~(th[t].kind = "message" /\ th[t].chat = c))
        => /\ user_sessions[c].youtube_url = ""
           /\ user_sessions[c].num_clips = 0
           /\ user_sessions[c].clip_duration = 0

\* C28: one call of the trigger client makes at most one POST and none when
\* the token or the repository is not configured; it returns success exactly
\* when the response has status 204, and returns every other response, and
\* the unconfigured case, as a failure with a reason string.
C28_TriggerClient ==
    \A i \in 1..Len(triggers) :
        LET c == triggers[i] IN
        /\ c.posted = configured
        /\ c.success = (c.posted /\ ~c.raised /\ c.code = "204")
        /\ ~c.posted => c.message = "GitHub not configured"
        /\ (c.posted /\ ~c.raised /\ c.code # "204")
           => ~c.success /\ c.message = "Error: " \o c.code
        /\ c.raised => c.posted /\ c.code = "-"

\* Witness of C28: a call whose POST was answered 500 returned the failure
\* (False, "Error: 500").
C28_Witness ==
    \E i \in 1..Len(triggers) :
        /\ triggers[i].posted /\ triggers[i].code = "500"
        /\ ~triggers[i].success /\ triggers[i].message = "Error: 500"

\* C29: one completed intake creates at most one job, also when two
\* messages of the chat are handled at the same time: no two handlers of one
\* chat are both past the processor-choice check, on their way to create_job,
\* before either has reset the stage.
C29_OneJobPerIntake ==
    \A t \in Threads, u \in Threads :
        (/\ t # u
         /\ th[t].kind = "message" /\ th[u].kind = "message"
         /\ th[t].chat = th[u].chat)
        => ~(th[t].pc = "h_reset" /\ th[u].pc = "h_reset")

\* C30: a job is created only by a message handled in the processor-choice
\* stage; a session moves from stage to stage only in the order idle, clip
\* count, duration, processor choice, or back to idle; and every job of the
\* registry has a clip count from 1 to 5 and a duration of 30, 45 or 60.
C30_JobsComeFromFullIntake ==
    /\ [][\A t \in Threads :
            (th[t].pc = "h_create" /\ th'[t].pc = "h_choice")
            => th[t].sess0.state = "waiting_processor"]_vars
    /\ [][\A c \in Chats :
            user_sessions'[c].state # user_sessions[c].state
            => \/ user_sessions'[c].state = "idle"
               \/ /\ user_sessions[c].state = "idle"
                  /\ user_sessions'[c].state = "waiting_num_clips"
               \/ /\ user_sessions[c].state = "waiting_num_clips"
                  /\ user_sessions'[c].state = "waiting_duration"
               \/ /\ user_sessions[c].state = "waiting_duration"
                  /\ user_sessions'[c].state = "waiting_processor"]_vars
    /\ [](\A j \in JobIds :
            job_queue[j] # 0
            => /\ jobs[job_queue[j]].num_clips \in 1..5
               /\ jobs[job_queue[j]].clip_duration \in {30, 45, 60})

\* C31: a claim request that has written status 'processing' and processor
\* 'local' into the job is answered with the success response: it never ends
\* with another answer while the job stays processing/local.
C31_ClaimWriteIsAnswered ==
    [][\A t \in Threads :
          (/\ th[t].kind = "claim"
           /\ th[t].pc = "c_send"
           /\ th'[t].pc = "ret"
           /\ jobs'[th[t].job].status = "processing"
           /\ jobs'[th[t].job].processor = "local")
          => th'[t].resp = 200]_vars

\* C32: the local worker calls process_job on a job only after its claim
\* request for that job was answered with success; it sends a terminal
\* report only for a job it claimed, and once an iteration of its loop is
\* over every job it claimed has exactly one report, complete or fail.
C32_WorkerClaimsThenReportsOnce ==
    /\ [][(worker.pc = "claiming" /\ worker'.pc = "process")
          => /\ th[2].kind = "claim" /\ th[2].pc = "ret"
             /\ th[2].resp = 200
             /\ th[2].job_id = worker.job_id]_vars
    /\ [](/\ \A i \in 1..Len(worker.started) :
                worker.started[i] \in worker.claimed
          /\ \A i \in 1..Len(worker.reports) :
                worker.reports[i].job_id \in worker.claimed
          /\ \A j \in worker.claimed :
                LET n == Cardinality({i \in 1..Len(worker.reports) :
                                         worker.reports[i].job_id = j})
                IN  /\ n <= 1
                    /\ n = 1 \/ (worker.job_id = j /\
                         worker.pc \in {"process", "progressing", "work"}))

\* Witness of C32: the worker claimed a job, processed it and reported its
\* failure; the report has been answered.
C32_Witness ==
    /\ worker.pc = "loop"
    /\ worker.claimed # {}
    /\ Len(worker.started) = 1
    /\ Len(worker.reports) = 1 /\ worker.reports[1].kind = "fail"
    /\ worker.reports[1].job_id \in worker.claimed

\* C33: under fair scheduling every job created in auto mode eventually has
\* a status other than 'pending' (claimed, escalated to processing, or
\* failed), each outbound call returning with a success or with a failure.
C33_AutoJobLeavesPending ==
    \A o \in 1..MaxJobs :
        (Len(jobs) >= o /\ jobs[o].processor_choice = "auto")
        ~> (Len(jobs) >= o /\ jobs[o].status # "pending")

\* C34: a claim, complete, fail or progress request that names a job_id
\* with no entry in the registry is answered 404 and does nothing else: no
\* job, registry entry or session changes, no message is sent, no trigger
\* call is made and no escalation thread moves.
C34_UnknownJobIsNotFound ==
    [][\A t \in Threads :
          (/\ th[t].kind \in {"claim", "complete", "fail", "progress"}
           /\ th[t].pc \in {"c_start", "k_start", "f_start", "p_start"}
           /\ job_queue[th[t].job_id] = 0
           /\ th'[t] # th[t])
          => /\ th'[t].pc = "ret"
             /\ th'[t].resp = 404
             /\ th'[t].sent = << >>
             /\ jobs' = jobs
             /\ job_queue' = job_queue
             /\ user_sessions' = user_sessions
             /\ triggers' = triggers
             /\ tasks' = tasks]_vars

\* Witness of C34: a fail request for an id that is not registered, while
\* a job is, has been answered 404.
C34_Witness ==
    \E t \in Threads :
        /\ th[t].kind = "fail" /\ th[t].pc = "ret" /\ th[t].resp = 404
        /\ job_queue[th[t].job_id] = 0
        /\ th[t].sent = << >>
        /\ Len(jobs) = 1 /\ jobs[1].status = "pending"

\* C35: once github_triggered of a job dict is True it stays True: no
\* request, escalation thread or intake step sets it back to False.
C35_TriggeredFlagStays ==
    [][\A o \in 1..Len(jobs) :
          jobs[o].github_triggered => jobs'[o].github_triggered]_vars

\* Witness of C35: a job whose flag was set by fail_job's fallback has since
\* been marked failed, with the flag still set.
C35_Witness ==
    \E o \in 1..Len(jobs) :
        /\ jobs[o].github_triggered
        /\ jobs[o].status = "failed"
        /\ \E i \in TriggersFor(o) : triggers[i].by = "fail"
====
